---- MODULE Spec2Model ----
(***************************************************************************)
(* Axis controllers of AbloCAM: xeryon.Motor (src/xeryon.py) and           *)
(* navitar.Motor (src/navitar.py), with ablolib.DynVar and ablolib.Worker. *)
(*                                                                         *)
(* Positions, limits and step sizes are Python floats in the source.  They *)
(* are held here as integers counting 1/U of a unit (U = 2: halves), so    *)
(* that 5.5 is 11 and int() has something to truncate.                     *)
(*                                                                         *)
(* One behaviour follows one Motor object.  `variant` says which class it  *)
(* is ("xeryon" or "navitar") and `letter` which stage ("X": the linear    *)
(* XLS_1250, "R": the rotary XRTU_30_109).                                 *)
(*                                                                         *)
(* Every operation records what it did in `op` (name, argument, and the    *)
(* values it started from), `hw` (the calls it made into the vendor        *)
(* library or the serial port), `sig` (the Qt signals it emitted) and      *)
(* `err` (it ended by raising).                                            *)
(*                                                                         *)
(* Spec follows the position and connection operations of both classes,   *)
(* SpecIndex the index search of a xeryon Motor (findIndex, the pool       *)
(* thread running findIndexThread, the slots it posts to the owner         *)
(* thread), SpecPoll the timer-driven updateData.                          *)
(***************************************************************************)
EXTENDS Integers, Sequences, FiniteSets, TLC

VARIABLES
    variant,        \* "xeryon" | "navitar": the Motor class of this object
    letter,         \* axis_letter
    connected,      \* Motor.connected
    indexFound,     \* xeryon Motor.indexFound
    controller,     \* xeryon Motor.controller: "none" | "created" | "started" | "stopped"
    axis,           \* xeryon Motor.axis is not None
    serial,         \* Motor.serial: None or a port name
    ser,            \* navitar Motor.ser: "none" | "unopened" | "open" | "closed"
    limits,         \* Motor.limits
    DPOS,           \* Motor.DPOS.value
    speed,          \* xeryon Motor.speed.value
    stepSize,       \* Motor.stepSize.value
    timerActive,    \* xeryon Motor.timer is running
    sessions,       \* controllers started and not stopped
    nsteps,         \* step() calls made so far
    crashed,        \* the process was aborted by an unhandled exception in a slot
    workers,        \* the Worker objects given to Motor.threadpool, in order; each
                    \* with its place in run(), its local _spd, and whether
                    \* the session its axis.findIndex() was called on has
                    \* been stopped (stale)
    queue,          \* slot calls posted to the owner thread and not yet run
    EPOS,           \* xeryon Motor.EPOS.value
    EPOS_prev,      \* Motor.EPOS_prev: <<>> for None, else <<value>>
    isEncoderError_prev,    \* Motor.isEncoderError_prev, likewise
    isEncoderValid_prev,    \* Motor.isEncoderValid_prev, likewise
    reading,        \* what the axis reported to the latest updateData(): <<>> or <<r>>
    DISABLE_WAITING,    \* xe.DISABLE_WAITING, a global of the Xeryon library module
    other,          \* the index-search worker of another Motor of the same
                    \* process, as far as it touches that global
    cam,            \* Basler.cam: "none" for None, "open" for an opened camera
    streaming,      \* BaslerGUI.streaming
    threads,        \* the basler.Thread objects started, in order; each with
                    \* its streaming flag, its place in run(), and whether
                    \* it has used Basler.cam while that was None
    connectionQueued,   \* connectionSignal(False) emitted by a grab thread and
                        \* not yet delivered to the GUI thread
    closed,         \* the parent window has been closed
    op, hw, sig, err

vars == <<variant, letter, connected, indexFound, controller, axis, serial, ser,
          limits, DPOS, speed, stepSize, timerActive, sessions, nsteps,
          crashed, workers, queue, EPOS, EPOS_prev, isEncoderError_prev,
          isEncoderValid_prev, reading, DISABLE_WAITING, other, cam, streaming,
          threads, connectionQueued, closed, op, hw, sig, err>>

\* the state of the index search, and the state of polling
searchVars == <<workers, queue>>
pollVars == <<EPOS, EPOS_prev, isEncoderError_prev, isEncoderValid_prev, reading>>
\* what the Motor objects of one process share
libVars == <<DISABLE_WAITING, other>>
\* the camera, its GUI and its grab threads
camVars == <<cam, streaming, threads, connectionQueued, closed>>
\* the Motor objects and the record of their latest operation
motorVars == <<variant, letter, connected, indexFound, controller, axis, serial,
               ser, limits, DPOS, speed, stepSize, timerActive, sessions,
               nsteps, crashed, searchVars, pollVars, libVars, op, hw, sig, err>>

(***************************************************************************)
(* Bounds of the model.                                                    *)
(***************************************************************************)
U == 2                  \* resolution: values count 1/U of a unit
MaxSessions == 2        \* connect() is not explored beyond this many open sessions
MaxSteps == 1          \* step() calls followed in one behaviour
MaxDepth == 8           \* nesting of DPOS.set inside __setDPOS that is followed
MaxWorkers == 2         \* findIndex() calls on a connected axis followed in one behaviour
MaxQueue == 2           \* slot calls that may wait for the owner thread
MaxThreads == 2         \* startStream() calls followed in one behaviour

None == "None"
Port == "COM"

Turn == 360 * U

\* al.DynVar(10) of __init__, and the speed findIndexThread searches at
DefaultSpeed == 10
SearchSpeed == 500

\* self.limits = [-5,5] of both __init__
DefaultLimits == <<-5 * U, 5 * U>>

\* int(x): Python truncates toward zero
PyInt(x) == IF x >= 0 THEN (x \div U) * U ELSE -(((-x) \div U) * U)

(***************************************************************************)
(* Serial port lookup.                                                     *)
(***************************************************************************)
SerialX == "7583835373835180D020"
SerialR == "95933323433351212070"
\* navitar.Motor.__init__ asks for the integer 0; list_ports reports serial
\* numbers as strings (or None), and in Python 0 == "..." is False.
SerialNav == "int(0)"

\* what list_ports.comports() may report: any set of attached devices
DeviceLists == SUBSET {SerialX, SerialR}

\* get_serial_port / GetSerialPort: the port of the first device whose serial
\* number equals the one asked for, else None
get_serial_port(serial_number, device_list) ==
    IF serial_number \in device_list THEN Port ELSE None

SerialNumberOf(l) == IF l = "X" THEN SerialX ELSE SerialR

\* xe.Stage.XLS_1250 is a linear stage, xe.Stage.XRTU_30_109 a rotary one
isLineair == letter = "X"

(***************************************************************************)
(* DPOS.set(v) and the slot Motor.__setDPOS it triggers.  The result is    *)
(* [value, hw, sig, err]: the value DPOS ends with, the vendor calls made, *)
(* the signals emitted, and whether an exception was raised.               *)
(***************************************************************************)
Emit(name, v) == <<name, v>>
HwCall(name, v) == <<name, v>>

\* the texts the status channels carry
Led == [Disconnected |-> 0, Connected |-> 1, EncoderError |-> 2,
        Searching |-> 3, EncoderValid |-> 4, IndexNotFound |-> 5,
        Ready |-> 6, Moving |-> 7, UnknownPosition |-> 8,
        LimitReached |-> 9, TryingLimit |-> 10, LimitOK |-> 11,
        Unlimited |-> 12]

\* the value __setDPOS writes back when DPOS is below limits[0]
LowCorrection(v) == IF isLineair THEN limits[1] ELSE v + Turn

\* the rotary branch lost: every axis clamps
HighCorrectionClamps(v) == limits[2]

\* the value __setDPOS writes back when DPOS is above limits[1]
HighCorrection(v) == IF isLineair THEN limits[2] ELSE v - Turn

\* the step replaces the position instead of being added to it
StepTargetNotAdded(stepSize_) == stepSize_

\* step(): the position asked for, float(self.DPOS.get()) + stepSize
StepTarget(stepSize_) == DPOS + stepSize_

\* __setDPOS writing the position without looking at the limits
setDPOSUnchecked(v, d) ==
    IF ~axis THEN [value |-> v, hw |-> <<>>, sig |-> <<>>, err |-> TRUE]
    ELSE [value |-> v, hw |-> <<HwCall("setDPOS", v)>>, sig |-> <<>>, err |-> FALSE]

RECURSIVE DPOS_set(_, _)
\* xeryon Motor.__setDPOS, entered with DPOS.get() = v at nesting depth d
setDPOS(v, d) ==
    IF v < limits[1] THEN
        IF ~axis THEN [value |-> v, hw |-> <<>>, sig |-> <<>>, err |-> TRUE]
        ELSE DPOS_set(LowCorrection(v), d + 1)
    ELSE IF v > limits[2] THEN
        IF ~axis THEN [value |-> v, hw |-> <<>>, sig |-> <<>>, err |-> TRUE]
        ELSE DPOS_set(HighCorrection(v), d + 1)
    ELSE
        IF ~axis THEN [value |-> v, hw |-> <<>>, sig |-> <<>>, err |-> TRUE]
        ELSE [value |-> v, hw |-> <<HwCall("setDPOS", v)>>, sig |-> <<>>, err |-> FALSE]

\* the slot not run again for a DPOS.set made inside the slot
DPOS_setOnce(v, d) ==
    IF d > 0
    THEN [value |-> v, hw |-> <<>>, sig |-> <<Emit("DPOS", v)>>, err |-> FALSE]
    ELSE LET r == setDPOS(v, d)
         IN  [r EXCEPT !.sig = <<Emit("DPOS", v)>> \o r.sig]

\* DynVar.set on DPOS: store, emit, run the connected slot.  Past MaxDepth
\* nested calls Python raises RecursionError.
DPOS_set(v, d) ==
    IF d > MaxDepth
    THEN [value |-> v, hw |-> <<>>, sig |-> <<>>, err |-> TRUE]
    ELSE LET r == setDPOS(v, d)
         IN  [r EXCEPT !.sig = <<Emit("DPOS", v)>> \o r.sig]

\* a serial.Serial that is not open raises on every read and write; None has
\* no attribute in_waiting
sendCommand(cmd) ==
    IF ser = "open"
    THEN [hw |-> <<HwCall(cmd, 0)>>, err |-> FALSE]
    ELSE [hw |-> <<>>, err |-> TRUE]

RECURSIVE navDPOS_set(_, _)
\* navitar Motor.__setDPOS
navSetDPOS(v, d) ==
    IF v < limits[1] THEN navDPOS_set(limits[1], d + 1)
    ELSE IF v > limits[2] THEN navDPOS_set(limits[2], d + 1)
    ELSE LET c == sendCommand("my_DPOS_message")
         IN  [value |-> v, hw |-> c.hw, sig |-> <<>>, err |-> c.err]

\* navitar DynVar.set on DPOS
navDPOS_set(v, d) ==
    IF d > MaxDepth
    THEN [value |-> v, hw |-> <<>>, sig |-> <<>>, err |-> TRUE]
    ELSE LET r == navSetDPOS(v, d)
         IN  [r EXCEPT !.sig = <<Emit("DPOS", v)>> \o r.sig]

\* what the operation that is starting records of the state it starts from
Started(name, arg) ==
    [name |-> name, arg |-> arg, DPOS |-> DPOS, connected |-> connected]

\* An exception that leaves a slot is printed and, depending on the PyQt5
\* version, either dropped or turned into qFatal(), which aborts the process.
SlotOutcome(e) == IF e THEN crashed' \in BOOLEAN ELSE crashed' = FALSE

(***************************************************************************)
(* Inputs.                                                                 *)
(***************************************************************************)
Letters == {"X", "R"}
Requests == {-725 * U, -360 * U, -10 * U, -5 * U, 4 * U, 7 * U, 370 * U, 720 * U,
             1090 * U}
Deltas == {(3 * U) \div 2, -((3 * U) \div 2)}
Speeds == {20}
StepSizes == {U, U \div 2}
\* axis.getSetting("LLIM") / ("HLIM") converted to mm, as <<x>>; NoSetting when
\* getSetting returns None
NoSetting == <<>>
ReportedLLIM == {NoSetting, <<(3 * U) \div 2>>}
ReportedHLIM == {NoSetting, <<U \div 2>>}

(***************************************************************************)
(* Motor.__init__                                                          *)
(***************************************************************************)
Init ==
    /\ variant \in {"xeryon", "navitar"}
    /\ letter \in IF variant = "xeryon" THEN Letters ELSE {"N"}
    /\ connected = FALSE
    /\ indexFound = FALSE
    /\ controller = "none"
    /\ axis = FALSE
    /\ \E device_list \in DeviceLists :
          serial = IF variant = "xeryon"
                   THEN get_serial_port(SerialNumberOf(letter), device_list)
                   ELSE get_serial_port(SerialNav, device_list)
    /\ ser = "none"
    /\ limits = DefaultLimits
    /\ DPOS = 0
    /\ speed = DefaultSpeed
    /\ stepSize = U
    /\ timerActive = FALSE
    /\ sessions = 0
    /\ nsteps = 0
    /\ crashed = FALSE
    /\ workers = <<>>
    /\ queue = <<>>
    /\ EPOS = 0
    /\ EPOS_prev = <<>>
    /\ isEncoderError_prev = <<>>
    /\ isEncoderValid_prev = <<>>
    /\ reading = <<>>
    /\ DISABLE_WAITING = FALSE
    /\ other = [pc |-> "none", run |-> 1]
    /\ cam = "none"
    /\ streaming = FALSE
    /\ threads = <<>>
    /\ connectionQueued = FALSE
    /\ closed = FALSE
    /\ op = Started("init", 0)
    /\ hw = <<>>
    /\ sig = <<>>
    /\ err = FALSE

(***************************************************************************)
(* xeryon.Motor                                                            *)
(***************************************************************************)
Xeryon == variant = "xeryon" /\ ~crashed

\* Motor.__setSpeed with speed.get() = v: no test of connected, and axis is
\* None until connect()
setSpeed(v) == IF axis THEN [hw |-> <<HwCall("setSpeed", v)>>, err |-> FALSE]
                       ELSE [hw |-> <<>>, err |-> TRUE]

\* the LLIM >= HLIM fallback lost: connect() stores whatever was reported
ConnectLimitsAsReported(l, h) ==
    LET LLIM == IF isLineair THEN (IF l /= NoSetting THEN PyInt(l[1]) ELSE -5 * U) ELSE 0
        HLIM == IF isLineair THEN (IF h /= NoSetting THEN PyInt(h[1]) ELSE 5 * U) ELSE Turn
    IN  <<LLIM, HLIM>>

\* the limits connect() computes from what the axis reports
ConnectLimits(l, h) ==
    LET LLIM == IF isLineair THEN (IF l /= NoSetting THEN PyInt(l[1]) ELSE -5 * U) ELSE 0
        HLIM == IF isLineair THEN (IF h /= NoSetting THEN PyInt(h[1]) ELSE 5 * U) ELSE Turn
    IN  IF LLIM >= HLIM THEN <<-1 * U, 1 * U>> ELSE <<LLIM, HLIM>>

\* Motor.__getSerial: what self.serial may be after connect() has looked for
\* the port (it looks only while self.serial is None)
getSerial ==
    IF serial = None
    THEN {get_serial_port(SerialNumberOf(letter), device_list) :
             device_list \in DeviceLists}
    ELSE {serial}

\* the early return lost: connect() goes on without a port
ConnectNoPortGoesOn ==
    /\ Xeryon /\ sessions < MaxSessions
    /\ None \in getSerial
    /\ controller' = "started"
    /\ sessions' = sessions + 1
    /\ axis' = TRUE
    /\ timerActive' = TRUE
    /\ connected' = TRUE
    /\ op' = Started("connect", 0)
    /\ hw' = <<HwCall("start", 0), HwCall("setSpeed", speed)>>
    /\ sig' = <<Emit("connected", Led.Connected), Emit("stepSize", stepSize)>>
    /\ err' = FALSE
    /\ UNCHANGED <<searchVars, pollVars, libVars>>
    /\ UNCHANGED camVars
    /\ UNCHANGED <<variant, letter, indexFound, serial, ser, limits, DPOS, speed,
                   stepSize, nsteps, crashed>>

\* connect() with no port: __getSerial() again, return False if still None
ConnectNoPort ==
    /\ Xeryon
    /\ None \in getSerial
    /\ op' = Started("connect", 0)
    /\ hw' = <<>> /\ sig' = <<>> /\ err' = FALSE
    /\ UNCHANGED <<searchVars, pollVars, libVars>>
    /\ UNCHANGED camVars
    /\ UNCHANGED <<variant, letter, connected, indexFound, controller, axis, serial,
                   ser, limits, DPOS, speed, stepSize, timerActive, sessions, nsteps, crashed>>

\* connect() in which controller.start() cannot open the port and raises
ConnectOpenFails ==
    /\ Xeryon
    /\ \E s \in getSerial \ {None} : serial' = s
    /\ controller' = "created"
    /\ axis' = TRUE
    /\ op' = Started("connect", 0)
    /\ hw' = <<HwCall("start", 0)>> /\ sig' = <<>> /\ err' = TRUE
    /\ SlotOutcome(TRUE)
    /\ UNCHANGED <<searchVars, pollVars, libVars>>
    /\ UNCHANGED camVars
    /\ UNCHANGED <<variant, letter, connected, indexFound, ser, limits, DPOS, speed,
                   stepSize, timerActive, sessions, nsteps>>

\* connect() that gets through, the axis reporting limits from LL and HH
ConnectReporting(LL, HH) ==
    /\ Xeryon /\ sessions < MaxSessions
    /\ \E s \in getSerial \ {None} : serial' = s
    /\ controller' = "started"
    /\ sessions' = sessions + 1
    /\ axis' = TRUE
    /\ \E l \in LL, h \in HH : limits' = ConnectLimits(l, h)
    /\ timerActive' = TRUE
    /\ connected' = TRUE
    /\ op' = Started("connect", 0)
    /\ hw' = <<HwCall("start", 0), HwCall("setSpeed", speed)>>
    /\ sig' = (IF isLineair THEN <<>>
               ELSE <<Emit("LLIM", Led.Unlimited), Emit("HLIM", Led.Unlimited)>>)
              \o <<Emit("connected", Led.Connected), Emit("stepSize", stepSize)>>
    /\ err' = FALSE
    /\ UNCHANGED <<searchVars, pollVars, libVars>>
    /\ UNCHANGED camVars
    /\ UNCHANGED <<variant, letter, indexFound, ser, DPOS, speed, stepSize, nsteps, crashed>>

Connect == ConnectReporting(ReportedLLIM, ReportedHLIM)

\* the same, the axis reporting no limits
ConnectNoLimits == ConnectReporting({NoSetting}, {NoSetting})

\* what the axis may report to one updateData(): the encoder position (the
\* values used are multiples of 1/U, which round(x*1000)/1000 leaves as they
\* are) and the status bits
Readings ==
    [EPOS : {0, U},
     isEncoderError : BOOLEAN, isEncoderValid : BOOLEAN,
     isSearchingIndex : BOOLEAN, isPositionReached : BOOLEAN,
     isAtLeftEnd : BOOLEAN, isAtRightEnd : BOOLEAN]

\* the position part of updateData(): EPOS.set only if the value changed
updateEPOS(r) ==
    IF <<r.EPOS>> /= EPOS_prev THEN <<Emit("EPOS", r.EPOS)>> ELSE <<>>

\* the connection part: emitted only if isEncoderError() changed
updateConnected(r) ==
    IF isEncoderError_prev /= <<r.isEncoderError>>
    THEN <<Emit("connected", IF r.isEncoderError THEN Led.EncoderError
                                                 ELSE Led.Connected)>>
    ELSE <<>>

\* the index part of updateData(), emitted without a comparison
updateFindIndex(r) ==
    <<Emit("findIndex", IF r.isEncoderValid THEN Led.EncoderValid
                        ELSE IF r.isSearchingIndex THEN Led.Searching
                        ELSE Led.IndexNotFound)>>

\* the moving part, emitted without a comparison
updateMoving(r) ==
    <<Emit("moving", IF r.isPositionReached
                     THEN (IF r.isEncoderValid THEN Led.Ready
                                               ELSE Led.UnknownPosition)
                     ELSE Led.Moving)>>

\* the limit parts, for a linear stage, emitted without a comparison
updateLimits(r) ==
    IF isLineair
    THEN <<Emit("LLIM", IF r.isAtLeftEnd THEN Led.LimitReached
                        ELSE IF DPOS <= limits[1] THEN Led.TryingLimit
                        ELSE Led.LimitOK),
           Emit("HLIM", IF r.isAtRightEnd THEN Led.LimitReached
                        ELSE IF DPOS >= limits[2] THEN Led.TryingLimit
                        ELSE Led.LimitOK)>>
    ELSE <<>>

\* the signals of updateData() when self.connected is c and the axis reports r
updateData(c, r) ==
    IF c
    THEN updateEPOS(r) \o updateConnected(r) \o updateFindIndex(r)
         \o updateMoving(r) \o updateLimits(r)
    ELSE <<Emit("connected", Led.Disconnected), Emit("findIndex", Led.Disconnected),
           Emit("moving", Led.Disconnected), Emit("LLIM", Led.Disconnected),
           Emit("HLIM", Led.Disconnected)>>

\* disconnect() joins no worker: those inside or past axis.findIndex() go
\* on, their search now one of a stopped session
StaleWorkers ==
    [i \in 1..Len(workers) |->
        IF workers[i].pc \in {"searching", "found"}
        THEN [workers[i] EXCEPT !.stale = TRUE]
        ELSE workers[i]]

\* disconnect() forgetting to clear indexFound
DisconnectKeepsIndex ==
    /\ Xeryon
    /\ controller' = IF controller = "none" THEN "none" ELSE "stopped"
    /\ sessions' = IF controller = "started" THEN sessions - 1 ELSE sessions
    /\ connected' = FALSE
    /\ timerActive' = FALSE
    /\ op' = Started("disconnect", 0)
    /\ hw' = IF controller = "none" THEN <<>> ELSE <<HwCall("stop", 0)>>
    /\ sig' = updateData(FALSE, <<>>)
    /\ err' = FALSE
    /\ isEncoderError_prev' = <<>>
    /\ isEncoderValid_prev' = <<>>
    /\ workers' = StaleWorkers
    /\ UNCHANGED <<queue, EPOS, EPOS_prev, reading, libVars>>
    /\ UNCHANGED camVars
    /\ UNCHANGED <<variant, letter, axis, serial, ser, limits, DPOS, speed,
                   stepSize, nsteps, crashed, indexFound>>

\* disconnect(): updateData() with connected False emits on all five channels
Disconnect ==
    /\ Xeryon
    /\ controller' = IF controller = "none" THEN "none" ELSE "stopped"
    /\ sessions' = IF controller = "started" THEN sessions - 1 ELSE sessions
    /\ connected' = FALSE
    /\ timerActive' = FALSE
    /\ indexFound' = FALSE
    /\ op' = Started("disconnect", 0)
    /\ hw' = IF controller = "none" THEN <<>> ELSE <<HwCall("stop", 0)>>
    /\ sig' = updateData(FALSE, <<>>)
    /\ err' = FALSE
    /\ isEncoderError_prev' = <<>>
    /\ isEncoderValid_prev' = <<>>
    /\ workers' = StaleWorkers
    /\ UNCHANGED <<queue, EPOS, EPOS_prev, reading, libVars>>
    /\ UNCHANGED camVars
    /\ UNCHANGED <<variant, letter, axis, serial, ser, limits, DPOS, speed,
                   stepSize, nsteps, crashed>>

\* DPOS.set(v) by a caller
SetDesiredPosition(v) ==
    LET r == DPOS_set(v, 0)
    IN  /\ DPOS' = r.value
        /\ hw' = r.hw /\ sig' = r.sig /\ err' = r.err
        /\ SlotOutcome(r.err)
        /\ UNCHANGED <<searchVars, pollVars, libVars>>
        /\ UNCHANGED camVars
        /\ UNCHANGED <<variant, letter, connected, indexFound, controller, axis,
                       serial, ser, limits, speed, stepSize, timerActive, sessions>>

SetDPOS ==
    /\ Xeryon
    /\ \E v \in Requests :
          /\ op' = Started("setDPOS", v)
          /\ SetDesiredPosition(v)
    /\ UNCHANGED nsteps

\* step(stepSize): DPOS.set(float(DPOS.get()) + stepSize)
Step ==
    /\ Xeryon /\ nsteps < MaxSteps
    /\ \E d \in Deltas :
          /\ op' = Started("step", d)
          /\ SetDesiredPosition(StepTarget(d))
    /\ nsteps' = nsteps + 1

\* step(): stepSize defaults to self.stepSize.get()
StepDefault ==
    /\ Xeryon /\ nsteps < MaxSteps
    /\ op' = Started("stepDefault", stepSize)
    /\ SetDesiredPosition(StepTarget(stepSize))
    /\ nsteps' = nsteps + 1

\* speed.set(v): store, emit, run the slot __setSpeed
SetSpeed ==
    /\ Xeryon
    /\ \E v \in Speeds :
          /\ speed' = v
          /\ op' = Started("setSpeed", v)
          /\ sig' = <<Emit("speed", v)>>
          /\ hw' = setSpeed(v).hw
          /\ err' = setSpeed(v).err
          /\ SlotOutcome(setSpeed(v).err)
    /\ UNCHANGED <<searchVars, pollVars, libVars>>
    /\ UNCHANGED camVars
    /\ UNCHANGED <<variant, letter, connected, indexFound, controller, axis, serial,
                   ser, limits, DPOS, stepSize, timerActive, sessions, nsteps>>

\* stepSize.set(v): store and emit; Motor connects no slot to it
SetStepSize ==
    /\ Xeryon
    /\ \E v \in StepSizes :
          /\ stepSize' = v
          /\ op' = Started("setStepSize", v)
          /\ sig' = <<Emit("stepSize", v)>>
    /\ hw' = <<>> /\ err' = FALSE
    /\ UNCHANGED <<searchVars, pollVars, libVars>>
    /\ UNCHANGED camVars
    /\ UNCHANGED <<variant, letter, connected, indexFound, controller, axis, serial,
                   ser, limits, DPOS, speed, timerActive, sessions, nsteps, crashed>>


(***************************************************************************)
(* Index search: Motor.findIndex, Worker.run, Motor.findIndexThread.       *)
(* A worker is at "start" (handed to the pool, or between the two calls of *)
(* Worker.run), "searching" (inside axis.findIndex()), "found" (the call   *)
(* returned) or "done".  The pool is taken to have a thread for each.      *)
(* speed.set and DPOS.set in the worker thread post their slots to the     *)
(* thread the DynVar lives in: the slot runs there, later.                 *)
(***************************************************************************)
SearchDPOS == -300 * U

\* findIndex() without the test of self.connected
FindIndexUnguarded ==
    /\ Xeryon
    /\ Len(workers) < MaxWorkers
    /\ op' = Started("findIndex", 0)
    /\ hw' = <<>> /\ err' = FALSE
    /\ isEncoderValid_prev' = <<>>
    /\ sig' = <<Emit("findIndex", Led.Searching)>>
    /\ workers' = Append(workers, [pc |-> "start", run |-> 1, spd |-> 0,
                                   stale |-> FALSE])
    /\ UNCHANGED <<queue, EPOS, EPOS_prev, isEncoderError_prev, reading, libVars>>
    /\ UNCHANGED camVars
    /\ UNCHANGED <<variant, letter, connected, indexFound, controller, axis, serial,
                   ser, limits, DPOS, speed, stepSize, timerActive, sessions, nsteps,
                   crashed>>

\* Motor.findIndex
FindIndex ==
    /\ Xeryon
    /\ connected => Len(workers) < MaxWorkers
    /\ op' = Started("findIndex", 0)
    /\ hw' = <<>> /\ err' = FALSE
    /\ IF connected
       THEN /\ isEncoderValid_prev' = <<>>
            /\ sig' = <<Emit("findIndex", Led.Searching)>>
            /\ workers' = Append(workers, [pc |-> "start", run |-> 1, spd |-> 0,
                                           stale |-> FALSE])
       ELSE /\ sig' = <<>>
            /\ UNCHANGED <<workers, isEncoderValid_prev>>
    /\ UNCHANGED <<queue, EPOS, EPOS_prev, isEncoderError_prev, reading, libVars>>
    /\ UNCHANGED camVars
    /\ UNCHANGED <<variant, letter, connected, indexFound, controller, axis, serial,
                   ser, limits, DPOS, speed, stepSize, timerActive, sessions, nsteps,
                   crashed>>

\* findIndexThread up to the call of axis.findIndex()
WorkerBegin(i) ==
    /\ Xeryon
    /\ workers[i].pc = "start"
    /\ Len(queue) < MaxQueue
    /\ workers' = [workers EXCEPT ![i].pc = "searching", ![i].spd = speed,
                                  ![i].stale = (controller /= "started")]
    /\ speed' = SearchSpeed
    /\ queue' = Append(queue, "setSpeed")
    /\ op' = Started("findIndexThread", i)
    /\ hw' = <<HwCall("setDPOS", SearchDPOS), HwCall("findIndex", 0)>>
    /\ sig' = <<Emit("speed", SearchSpeed)>>
    /\ err' = FALSE
    /\ DISABLE_WAITING' = FALSE
    /\ UNCHANGED <<pollVars, other>>
    /\ UNCHANGED camVars
    /\ UNCHANGED <<variant, letter, connected, indexFound, controller, axis, serial,
                   ser, limits, DPOS, stepSize, timerActive, sessions, nsteps, crashed>>

\* axis.findIndex() returns
WorkerIndexReturns(i) ==
    /\ Xeryon
    /\ workers[i].pc = "searching"
    /\ workers' = [workers EXCEPT ![i].pc = "found"]
    /\ op' = Started("findIndexReturns", i)
    /\ hw' = <<>> /\ sig' = <<>> /\ err' = FALSE
    /\ UNCHANGED <<queue, pollVars, libVars>>
    /\ UNCHANGED camVars
    /\ UNCHANGED <<variant, letter, connected, indexFound, controller, axis, serial,
                   ser, limits, DPOS, speed, stepSize, timerActive, sessions, nsteps,
                   crashed>>

\* a worker whose run() is over
Done == [pc |-> "done", run |-> 2, spd |-> 0, stale |-> FALSE]

\* Worker.run calling fn once
WorkerAfterRunOnce(ws, i) == [ws EXCEPT ![i] = Done]

\* Worker.run: fn is called, and called again inside the try
WorkerAfterRun(ws, i) ==
    IF ws[i].run = 1
    THEN [ws EXCEPT ![i] = [@ EXCEPT !.pc = "start", !.run = 2, !.spd = 0,
                                     !.stale = FALSE]]
    ELSE [ws EXCEPT ![i] = Done]

\* Worker.run: signals.finished is emitted after the second call of fn
WorkerFinished(w) == IF w.run = 2 THEN <<Emit("finished", 0)>> ELSE <<>>

\* findIndexThread after axis.findIndex() has returned
WorkerEnd(i) ==
    /\ Xeryon
    /\ workers[i].pc = "found"
    /\ Len(queue) + 2 <= MaxQueue
    /\ indexFound' = TRUE
    /\ DPOS' = 0
    /\ speed' = workers[i].spd
    /\ queue' = queue \o <<"setDPOS", "setSpeed">>
    /\ isEncoderValid_prev' = <<>>
    /\ workers' = WorkerAfterRun(workers, i)
    /\ op' = Started("findIndexFound", i)
    /\ hw' = <<>>
    /\ sig' = <<Emit("DPOS", 0), Emit("speed", workers[i].spd)>>
              \o WorkerFinished(workers[i])
    /\ err' = FALSE
    /\ DISABLE_WAITING' = TRUE
    /\ UNCHANGED <<EPOS, EPOS_prev, isEncoderError_prev, reading, other>>
    /\ UNCHANGED camVars
    /\ UNCHANGED <<variant, letter, connected, controller, axis, serial, ser, limits,
                   stepSize, timerActive, sessions, nsteps, crashed>>

WorkerStep ==
    \E i \in 1..Len(workers) :
        WorkerBegin(i) \/ WorkerIndexReturns(i) \/ WorkerEnd(i)

\* the owner thread runs the posted __setSpeed
DeliverSetSpeed ==
    /\ Xeryon
    /\ queue /= <<>> /\ Head(queue) = "setSpeed"
    /\ queue' = Tail(queue)
    /\ op' = Started("slot__setSpeed", speed)
    /\ hw' = setSpeed(speed).hw
    /\ sig' = <<>>
    /\ err' = setSpeed(speed).err
    /\ SlotOutcome(setSpeed(speed).err)
    /\ UNCHANGED <<workers, pollVars, libVars>>
    /\ UNCHANGED camVars
    /\ UNCHANGED <<variant, letter, connected, indexFound, controller, axis, serial,
                   ser, limits, DPOS, speed, stepSize, timerActive, sessions, nsteps>>

\* the owner thread runs the posted __setDPOS
DeliverSetDPOS ==
    /\ Xeryon
    /\ queue /= <<>> /\ Head(queue) = "setDPOS"
    /\ queue' = Tail(queue)
    /\ op' = Started("slot__setDPOS", DPOS)
    /\ LET r == setDPOS(DPOS, 0)
       IN  /\ DPOS' = r.value
           /\ hw' = r.hw
           /\ sig' = r.sig
           /\ err' = r.err
           /\ SlotOutcome(r.err)
    /\ UNCHANGED <<workers, pollVars, libVars>>
    /\ UNCHANGED camVars
    /\ UNCHANGED <<variant, letter, connected, indexFound, controller, axis, serial,
                   ser, limits, speed, stepSize, timerActive, sessions, nsteps>>

\* DPOS.set by a caller while the search is followed
NearRequests == {-10 * U}
SetDPOSNear ==
    /\ Xeryon
    /\ \E v \in NearRequests :
          (op' = Started("setDPOS", v) /\ SetDesiredPosition(v))
    /\ UNCHANGED nsteps

(***************************************************************************)
(* Polling: the timer calls Motor.updateData every MOTOR_UPDATE_TIMER ms.  *)
(***************************************************************************)
Poll ==
    /\ Xeryon
    /\ timerActive
    /\ op' = Started("updateData", 0)
    /\ err' = FALSE
    /\ IF connected
       THEN \E r \in Readings :
              /\ reading' = <<r>>
              /\ sig' = updateData(TRUE, r)
              /\ hw' = <<HwCall("getData", 0)>>
              /\ EPOS' = IF <<r.EPOS>> /= EPOS_prev THEN r.EPOS ELSE EPOS
              /\ EPOS_prev' = <<r.EPOS>>
              /\ isEncoderError_prev' = <<r.isEncoderError>>
       ELSE /\ reading' = <<>>
            /\ sig' = updateData(FALSE, <<>>)
            /\ hw' = <<>>
            /\ UNCHANGED <<EPOS, EPOS_prev, isEncoderError_prev>>
    /\ UNCHANGED <<searchVars, isEncoderValid_prev, libVars>>
    /\ UNCHANGED camVars
    /\ UNCHANGED <<variant, letter, connected, indexFound, controller, axis, serial,
                   ser, limits, DPOS, speed, stepSize, timerActive, sessions, nsteps,
                   crashed>>

\* what every operation on the other Motor leaves alone: all of this Motor
OtherLeaves ==
    /\ op' = op /\ hw' = hw /\ sig' = sig /\ err' = err
    /\ UNCHANGED <<searchVars, pollVars>>
    /\ UNCHANGED camVars
    /\ UNCHANGED <<variant, letter, connected, indexFound, controller, axis, serial,
                   ser, limits, DPOS, speed, stepSize, timerActive, sessions, nsteps,
                   crashed>>

\* findIndex() on the other Motor, connected: its worker goes to the pool
OtherFindIndex ==
    /\ ~crashed
    /\ other.pc = "none"
    /\ other' = [pc |-> "start", run |-> 1]
    /\ UNCHANGED DISABLE_WAITING
    /\ OtherLeaves

\* its findIndexThread up to the call of axis.findIndex()
OtherBegin ==
    /\ ~crashed
    /\ other.pc = "start"
    /\ other' = [other EXCEPT !.pc = "searching"]
    /\ DISABLE_WAITING' = FALSE
    /\ OtherLeaves

\* its axis.findIndex() returns
OtherIndexReturns ==
    /\ ~crashed
    /\ other.pc = "searching"
    /\ other' = [other EXCEPT !.pc = "found"]
    /\ UNCHANGED DISABLE_WAITING
    /\ OtherLeaves

\* its findIndexThread after axis.findIndex(); Worker.run calls it twice
OtherEnd ==
    /\ ~crashed
    /\ other.pc = "found"
    /\ other' = IF other.run = 1 THEN [pc |-> "start", run |-> 2]
                                 ELSE [pc |-> "done", run |-> 2]
    /\ DISABLE_WAITING' = TRUE
    /\ OtherLeaves

\* updateData() in which a call into the axis raises: there is no try in
\* updateData, the exception leaves the timer's slot
PollFails ==
    /\ Xeryon
    /\ timerActive /\ connected
    /\ op' = Started("updateData", 0)
    /\ hw' = <<HwCall("getData raises", 0)>>
    /\ sig' = <<>>
    /\ err' = TRUE
    /\ SlotOutcome(TRUE)
    /\ UNCHANGED <<searchVars, pollVars, libVars>>
    /\ UNCHANGED camVars
    /\ UNCHANGED <<variant, letter, connected, indexFound, controller, axis, serial,
                   ser, limits, DPOS, speed, stepSize, timerActive, sessions, nsteps>>

\* DPOS.set(v) on a connected axis whose axis.setDPOS raises: there is no try
\* in __setDPOS either
SetDPOSFails ==
    /\ Xeryon
    /\ connected
    /\ \E v \in NearRequests :
          LET r == DPOS_set(v, 0)
          IN  /\ Len(r.hw) > 0
              /\ op' = Started("setDPOS", v)
              /\ DPOS' = r.value
              /\ hw' = <<HwCall("setDPOS raises", 0)>>
              /\ sig' = r.sig
    /\ err' = TRUE
    /\ SlotOutcome(TRUE)
    /\ UNCHANGED <<searchVars, pollVars, libVars>>
    /\ UNCHANGED camVars
    /\ UNCHANGED <<variant, letter, connected, indexFound, controller, axis, serial,
                   ser, limits, speed, stepSize, timerActive, sessions, nsteps>>

(***************************************************************************)
(* navitar.Motor                                                           *)
(***************************************************************************)
Navitar == variant = "navitar" /\ ~crashed

\* connect(): serial.Serial(port=None, ...) builds the object without opening
\* anything and raises nothing; connected is set whatever happened
NavConnect ==
    /\ Navitar
    /\ ser' = IF serial = None THEN "unopened" ELSE "open"
    /\ connected' = TRUE
    /\ op' = Started("connect", 0)
    /\ hw' = IF serial = None THEN <<>> ELSE <<HwCall("open", 0)>>
    /\ sig' = <<>> /\ err' = FALSE
    /\ UNCHANGED <<searchVars, pollVars, libVars>>
    /\ UNCHANGED camVars
    /\ UNCHANGED <<variant, letter, indexFound, controller, axis, serial, limits,
                   DPOS, speed, stepSize, timerActive, sessions, nsteps, crashed>>

\* disconnect(): self.ser.close() with self.ser None raises AttributeError
NavDisconnect ==
    /\ Navitar
    /\ IF ser = "none"
       THEN /\ err' = TRUE /\ SlotOutcome(TRUE)
            /\ hw' = <<>>
            /\ UNCHANGED <<ser, connected>>
       ELSE /\ err' = FALSE /\ SlotOutcome(FALSE)
            /\ hw' = <<HwCall("close", 0)>>
            /\ ser' = "closed"
            /\ connected' = FALSE
    /\ op' = Started("disconnect", 0)
    /\ sig' = <<>>
    /\ UNCHANGED <<searchVars, pollVars, libVars>>
    /\ UNCHANGED camVars
    /\ UNCHANGED <<variant, letter, indexFound, controller, axis, serial, limits,
                   DPOS, speed, stepSize, timerActive, sessions, nsteps>>

\* DPOS.set(v) by a caller
NavSetDesiredPosition(v) ==
    LET r == navDPOS_set(v, 0)
    IN  /\ DPOS' = r.value
        /\ hw' = r.hw /\ sig' = r.sig /\ err' = r.err
        /\ SlotOutcome(r.err)
        /\ UNCHANGED <<searchVars, pollVars, libVars>>
        /\ UNCHANGED camVars
        /\ UNCHANGED <<variant, letter, connected, indexFound, controller, axis,
                       serial, ser, limits, speed, stepSize, timerActive, sessions>>

NavSetDPOS ==
    /\ Navitar
    /\ \E v \in Requests :
          /\ op' = Started("setDPOS", v)
          /\ NavSetDesiredPosition(v)
    /\ UNCHANGED nsteps

\* step(stepSize)
NavStep ==
    /\ Navitar /\ nsteps < MaxSteps
    /\ \E d \in Deltas :
          /\ op' = Started("step", d)
          /\ NavSetDesiredPosition(StepTarget(d))
    /\ nsteps' = nsteps + 1

\* step()
NavStepDefault ==
    /\ Navitar /\ nsteps < MaxSteps
    /\ op' = Started("stepDefault", stepSize)
    /\ NavSetDesiredPosition(StepTarget(stepSize))
    /\ nsteps' = nsteps + 1

\* stepSize.set(v)
NavSetStepSize ==
    /\ Navitar
    /\ \E v \in StepSizes :
          /\ stepSize' = v
          /\ op' = Started("setStepSize", v)
          /\ sig' = <<Emit("stepSize", v)>>
    /\ hw' = <<>> /\ err' = FALSE
    /\ UNCHANGED <<searchVars, pollVars, libVars>>
    /\ UNCHANGED camVars
    /\ UNCHANGED <<variant, letter, connected, indexFound, controller, axis, serial,
                   ser, limits, DPOS, speed, timerActive, sessions, nsteps, crashed>>

(***************************************************************************)
(* basler.Basler, basler.Thread and basler.BaslerGUI.  Basler.__init__     *)
(* leaves cam = None and ends with connect(), which is BaslerConnect here; *)
(* the device is taken to answer, so connect() and a grab on an open       *)
(* camera succeed.  Thread.pause is never toggled.                         *)
(***************************************************************************)
NewThread == [streaming |-> TRUE, pc |-> "test", onNone |-> FALSE]

\* Thread.stopStreaming in every Thread connected to sig1: the Thread
\* objects live in the GUI thread, so the slot runs inside emit()
stopStreaming(ts) == [i \in 1..Len(ts) |-> [ts[i] EXCEPT !.streaming = FALSE]]

\* BaslerGUI.stopStream()
stopStream(ts) == IF streaming THEN stopStreaming(ts) ELSE ts

\* Basler.connect() from the Connect button
BaslerConnect ==
    /\ ~closed
    /\ cam = "none"
    /\ cam' = "open"
    /\ UNCHANGED <<streaming, threads, connectionQueued, closed, motorVars>>

\* Basler.disconnect() from the Disconnect button; connectionSignal(False)
\* runs BaslerGUI.__toggleConnection, which calls stopStream()
BaslerDisconnect ==
    /\ ~closed
    /\ cam = "open"
    /\ cam' = "none"
    /\ streaming' = FALSE
    /\ threads' = stopStream(threads)
    /\ UNCHANGED <<connectionQueued, closed, motorVars>>

\* BaslerGUI.startStream() from the Stream button
StartStream ==
    /\ ~closed
    /\ cam = "open" \/ connectionQueued
    /\ ~streaming
    /\ Len(threads) < MaxThreads
    /\ streaming' = TRUE
    /\ threads' = Append(threads, NewThread)
    /\ UNCHANGED <<cam, connectionQueued, closed, motorVars>>

\* BaslerGUI.stopStream() from the Stop button or the view window
StopStream ==
    /\ ~closed
    /\ streaming
    /\ streaming' = FALSE
    /\ threads' = stopStream(threads)
    /\ UNCHANGED <<cam, connectionQueued, closed, motorVars>>

\* BaslerGUI.__parentClose(): stopStream(), then Basler.disconnect()
ParentClose ==
    /\ ~closed
    /\ closed' = TRUE
    /\ streaming' = FALSE
    /\ threads' = stopStream(threads)
    /\ cam' = "none"
    /\ UNCHANGED <<connectionQueued, motorVars>>

\* connectionSignal(False) of a grab thread's disconnect() reaches the GUI
DeliverConnection ==
    /\ ~closed
    /\ connectionQueued
    /\ connectionQueued' = FALSE
    /\ streaming' = FALSE
    /\ threads' = stopStream(threads)
    /\ UNCHANGED <<cam, closed, motorVars>>

\* Basler.grabImg() in a grab thread finds cam = None: the AttributeError is
\* caught, disconnect() is called and noise is returned
GrabOnNone(i) ==
    /\ threads' = [threads EXCEPT ![i].pc = "test", ![i].onNone = TRUE]
    /\ connectionQueued' = TRUE

\* Thread.run(): the test of the loop and, when it passes, the entry of
\* Basler.grabImg()
ThreadTest(i) ==
    /\ threads[i].pc = "test"
    /\ IF ~threads[i].streaming
       THEN /\ threads' = [threads EXCEPT ![i].pc = "stop"]
            /\ UNCHANGED connectionQueued
       ELSE IF cam = "open"
       THEN /\ threads' = [threads EXCEPT ![i].pc = "grab"]
            /\ UNCHANGED connectionQueued
       ELSE GrabOnNone(i)
    /\ UNCHANGED <<cam, streaming, closed, motorVars>>

\* Thread.run(): Basler.grabImg() returns.  When the camera was closed
\* meanwhile, the image may have arrived before, or the next use of cam fails
ThreadGrabbed(i) ==
    /\ threads[i].pc = "grab"
    /\ \/ /\ threads' = [threads EXCEPT ![i].pc = "test"]
          /\ UNCHANGED connectionQueued
       \/ /\ cam = "none"
          /\ GrabOnNone(i)
    /\ UNCHANGED <<cam, streaming, closed, motorVars>>

\* Thread.run(): self.Basler.cam.StopGrabbing() after the loop
ThreadStop(i) ==
    /\ threads[i].pc = "stop"
    /\ threads' = IF cam = "open"
                  THEN [threads EXCEPT ![i].pc = "ended"]
                  ELSE [threads EXCEPT ![i].pc = "died", ![i].onNone = TRUE]
    /\ UNCHANGED <<cam, streaming, connectionQueued, closed, motorVars>>

ThreadStep == \E i \in 1..Len(threads) : ThreadTest(i) \/ ThreadGrabbed(i) \/ ThreadStop(i)

Next ==
    \/ ConnectNoPort
    \/ ConnectOpenFails
    \/ Connect
    \/ Disconnect
    \/ SetDPOS
    \/ Step
    \/ StepDefault
    \/ SetSpeed
    \/ SetStepSize
    \/ NavConnect
    \/ NavDisconnect
    \/ NavSetDPOS
    \/ NavStep
    \/ NavStepDefault
    \/ NavSetStepSize

Spec == Init /\ [][Next]_vars

\* the index search of one xeryon.Motor (with the device attached)
InitIndex == Init /\ variant = "xeryon" /\ serial /= None
NextIndex ==
    \/ ConnectNoLimits
    \/ Disconnect
    \/ FindIndex
    \/ WorkerStep
    \/ DeliverSetSpeed
    \/ DeliverSetDPOS
    \/ SetDPOSNear
SpecIndex == InitIndex /\ [][NextIndex]_vars

\* the index searches of two xeryon.Motor objects and the library flag
NextFlag ==
    \/ ConnectNoLimits
    \/ FindIndex
    \/ WorkerStep
    \/ DeliverSetSpeed
    \/ DeliverSetDPOS
    \/ OtherFindIndex
    \/ OtherBegin
    \/ OtherIndexReturns
    \/ OtherEnd
SpecFlag == InitIndex /\ [][NextFlag]_vars

\* the polling of one xeryon.Motor
InitPoll == Init /\ variant = "xeryon"
NextPoll ==
    \/ Connect
    \/ Disconnect
    \/ Poll
    \/ PollFails
    \/ SetDPOSNear
    \/ SetDPOSFails
SpecPoll == InitPoll /\ [][NextPoll]_vars

\* the camera, its GUI and its grab threads
InitBasler == Init /\ variant = "navitar" /\ serial = None
NextBasler ==
    \/ BaslerConnect
    \/ BaslerDisconnect
    \/ StartStream
    \/ StopStream
    \/ ParentClose
    \/ DeliverConnection
    \/ ThreadStep
SpecBasler == InitBasler /\ [][NextBasler]_vars

(***************************************************************************)
(* Reference definitions used by the properties.                           *)
(***************************************************************************)
Clamp(v, lo, hi) == IF v < lo THEN lo ELSE IF v > hi THEN hi ELSE v

LowLimit == limits[1]
HighLimit == limits[2]

\* the axis is a linear one: the Navitar motor, or a Xeryon linear stage
LinearAxis == variant = "navitar" \/ (variant = "xeryon" /\ isLineair)
RotaryAxis == variant = "xeryon" /\ ~isLineair

IsStep == op.name \in {"step", "stepDefault"}
Emitted(channel) == \E i \in 1..Len(sig) : sig[i][1] = channel
Called(name) == \E i \in 1..Len(hw) : hw[i][1] = name

(***************************************************************************)
(* Properties.                                                             *)
(***************************************************************************)

\* C1: on a linear axis, after setDesiredPosition(v) the stored desired
\* position is clamp(v, lowLimit, highLimit).
C1_LinearClamp ==
    (op.name = "setDPOS" /\ LinearAxis) => DPOS = Clamp(op.arg, LowLimit, HighLimit)

\* C1, where it does hold: on the Navitar motor, and on a Xeryon linear stage
\* whose axis object exists (connect() got as far as addAxis once).
C1_LinearClampWithAxis ==
    (op.name = "setDPOS" /\ LinearAxis /\ (variant = "xeryon" => axis))
        => DPOS = Clamp(op.arg, LowLimit, HighLimit)

\* C2: on a rotary axis with limits [0, 360], a request v outside the limits
\* and within one turn of them is stored as v + 360 (below) or v - 360 (above),
\* which lies within the limits.
C2_RotaryWrap ==
    (/\ op.name = "setDPOS" /\ RotaryAxis /\ limits = <<0, Turn>>
     /\ op.arg \in (LowLimit - Turn)..(HighLimit + Turn)
     /\ (op.arg < LowLimit \/ op.arg > HighLimit))
        => /\ DPOS \in LowLimit..HighLimit
           /\ DPOS = IF op.arg < LowLimit THEN op.arg + Turn ELSE op.arg - Turn

C2_Witness ==
    /\ op.name = "setDPOS" /\ RotaryAxis /\ limits = <<0, Turn>>
    /\ op.arg = 370 * U /\ DPOS = 10 * U /\ ~err

\* C3: between calls the desired position lies within [lowLimit, highLimit].
C3_WithinLimits == DPOS \in LowLimit..HighLimit

\* C4: setDesiredPosition called with the stored desired position leaves the
\* desired position as it was.
C4_Idempotent ==
    (op.name = "setDPOS" /\ op.arg = op.DPOS) => DPOS = op.DPOS

\* C5: step(delta) does what setDesiredPosition(desiredPosition + delta) does
\* from the same state, delta being stepSize when omitted: the same stored
\* value, the same hardware calls, the same outcome; on a linear axis whose
\* axis object exists that value is the clamped sum.
C5_StepIsSet ==
    IsStep =>
        LET target == op.DPOS + op.arg
            r == IF variant = "xeryon" THEN DPOS_set(target, 0)
                                       ELSE navDPOS_set(target, 0)
        IN  /\ op.name = "stepDefault" => op.arg = stepSize
            /\ DPOS = r.value /\ hw = r.hw /\ sig = r.sig /\ err = r.err
            /\ (LinearAxis /\ (variant = "xeryon" => axis))
                  => DPOS = Clamp(target, LowLimit, HighLimit)

C5_Witness ==
    /\ op.name = "step" /\ variant = "xeryon" /\ isLineair /\ axis
    /\ limits = DefaultLimits
    /\ op.DPOS = 4 * U /\ op.arg = (3 * U) \div 2 /\ DPOS = 5 * U

\* C6: on an axis that is not connected, setDesiredPosition(v) stores the
\* normalised value, makes no hardware call and raises nothing.
C6_DisconnectedStoresOnly ==
    (op.name = "setDPOS" /\ ~connected)
        => /\ ~err
           /\ ~Called("setDPOS") /\ ~Called("my_DPOS_message")
           /\ LinearAxis => DPOS = Clamp(op.arg, LowLimit, HighLimit)

\* C7: setSpeed(v) and setStepSize(v) store v and emit the change whatever
\* the connection state; they call the hardware only while connected, and on
\* a disconnected axis they raise nothing.
C7_ParameterSetters ==
    /\ op.name = "setSpeed"
          => /\ speed = op.arg /\ Emitted("speed")
             /\ (hw /= <<>> => connected)
             /\ (~connected => ~err)
    /\ op.name = "setStepSize"
          => /\ stepSize = op.arg /\ Emitted("stepSize")
             /\ (hw /= <<>> => connected)
             /\ (~connected => ~err)

\* C8: Xeryon connect() with no serial port resolved opens no session,
\* starts no timer, leaves the limits alone and leaves connected false.
C8_ConnectWithoutPort ==
    (variant = "xeryon" /\ op.name = "connect" /\ serial = None)
        => /\ hw = <<>> /\ controller = "none" /\ ~axis /\ sessions = 0
           /\ ~timerActive
           /\ limits = DefaultLimits
           /\ ~connected

C8_Witness ==
    variant = "xeryon" /\ op.name = "connect" /\ serial = None /\ ~err

\* C9: a Xeryon connect() that fails (no port, or the session cannot be
\* opened) leaves connected false and emits on the connection channel.
C9_FailedConnectNotifies ==
    (variant = "xeryon" /\ op.name = "connect" /\ (serial = None \/ err))
        => (~connected /\ Emitted("connected"))

\* C10: a Navitar motor is connected only if a serial port was resolved
\* for it.
C10_NavConnectedHasPort ==
    (variant = "navitar" /\ connected) => serial /= None

\* C11: the low limit is below the high limit in every reachable state: at
\* construction, and after every connect() whatever the axis reports (a
\* missing limit, or a low limit at or above the high one).
C11_LimitsOrdered == LowLimit < HighLimit

\* a connect() of a linear axis has fallen back to the range [-1, 1]
C11_Witness ==
    /\ variant = "xeryon" /\ isLineair
    /\ op.name = "connect" /\ connected
    /\ limits = <<-1 * U, 1 * U>>
StatusChannels == {"connected", "findIndex", "moving", "LLIM", "HLIM"}
AnyWorker(pcs) == \E i \in 1..Len(workers) : workers[i].pc \in pcs

\* C12: when disconnect() of a xeryon Motor returns, from any state,
\* connected and indexFound are false, the polling timer is stopped, and
\* exactly one "Disconnected" notification went out on each of the five
\* status channels.
C12_DisconnectResets ==
    (variant = "xeryon" /\ op.name = "disconnect")
        => /\ ~connected /\ ~indexFound /\ ~timerActive
           /\ Len(sig) = Cardinality(StatusChannels)
           /\ \A ch \in StatusChannels :
                 Cardinality({i \in 1..Len(sig) :
                                 sig[i] = Emit(ch, Led.Disconnected)}) = 1

\* disconnect() of a connected axis with an index search in flight
C12_Witness ==
    /\ op.name = "disconnect" /\ op.connected /\ Called("stop")
    /\ AnyWorker({"found"})
\* C13: disconnect() on an axis that is not connected (never connected, or
\* already disconnected) raises nothing and leaves connected false, for the
\* xeryon and the navitar Motor alike.
C13_DisconnectWhenDisconnected ==
    [][(~connected /\ op'.name = "disconnect") => (~err' /\ ~connected')]_vars

\* the same for the xeryon Motor alone
C13_XeryonDisconnectWhenDisconnected ==
    [][(variant = "xeryon" /\ ~connected /\ op'.name = "disconnect")
          => (~err' /\ ~connected')]_vars
\* C14: disconnect() followed immediately by connect(), on an axis that was
\* connected (and held one session), ends connected, with the timer running,
\* exactly one open session and indexFound false; and indexFound then stays
\* false until an index search made on the new session completes.
C14_ReconnectIsFresh ==
    [][/\ (op.name = "disconnect" /\ op.connected /\ sessions = 0
              /\ op'.name = "connect")
           => (connected' /\ timerActive' /\ sessions' = 1 /\ ~indexFound')
       /\ (connected /\ ~indexFound /\ indexFound')
           => ~workers[op'.arg].stale]_vars

\* the part of C14 that is about the state connect() returns in
C14_ReconnectState ==
    [][(op.name = "disconnect" /\ op.connected /\ sessions = 0
              /\ op'.name = "connect")
           => (connected' /\ timerActive' /\ sessions' = 1 /\ ~indexFound')]_vars
\* C15: findIndex() called while connected is false makes no hardware call,
\* starts no worker, emits no notification and changes no state variable.
C15_FindIndexWhenDisconnected ==
    [][(~connected /\ op'.name = "findIndex")
          => /\ hw' = <<>> /\ sig' = <<>> /\ ~err'
             /\ workers' = workers /\ queue' = queue
             /\ UNCHANGED <<connected, indexFound, controller, axis, serial,
                            limits, DPOS, speed, stepSize, timerActive, sessions,
                            pollVars>>]_vars

\* findIndex() has been called on an axis that was connected and no longer is
C15_Witness ==
    /\ op.name = "findIndex" /\ ~op.connected /\ ~connected
    /\ controller = "stopped"
AllSearchesDone == workers /= <<>> /\ \A i \in 1..Len(workers) : workers[i].pc = "done"

\* C16: when the index-search work started by findIndex() on a connected
\* axis has all finished, speed is what it was when findIndex() was called
\* and indexFound is true, whatever the interleaving, a second findIndex()
\* during the first included.  (No other operation of SpecIndex sets speed,
\* so outside a search it is the DefaultSpeed of __init__.)
C16_SearchRestoresSpeed ==
    [][(~AllSearchesDone /\ AllSearchesDone')
          => (speed' = DefaultSpeed /\ indexFound')]_vars
Searching == {i \in 1..Len(workers) : workers[i].pc = "searching"}

\* C17: at most one index search of an axis executes against the hardware
\* at any time: a findIndex() made during a search does not run beside it.
C17_OneSearchAtATime == Cardinality(Searching) <= 1

\* C18: when disconnect() is called during an index search the worker is
\* over before the session is closed: the worker makes no hardware call on
\* the stopped controller, and the axis stays Disconnected (indexFound
\* false) afterwards.
C18_DisconnectEndsSearch ==
    controller = "stopped"
        => (~(op.name = "findIndexThread" /\ hw /= <<>>) /\ ~indexFound)

\* the operations of the owner thread that the claim names, as `op` has them
OwnerAccess == {"setDPOS", "slot__setDPOS", "setSpeed", "slot__setSpeed", "updateData"}

\* C19: hardware accesses of one axis are serialised: while the worker is
\* inside its hardware call, setDesiredPosition, setSpeed and the poll make
\* none, and no second worker is inside one.
C19_HardwareSerialised ==
    [][/\ (Searching /= {} /\ op'.name \in OwnerAccess) => hw' = <<>>
       /\ Cardinality(Searching') <= 1]_vars
\* two polls of the connected axis, one straight after the other, to which
\* the axis reports the same
SamePollAgain ==
    /\ op.name = "updateData" /\ op'.name = "updateData"
    /\ connected /\ reading /= <<>> /\ reading' = reading

\* C20: for each status category updateData() emits only when the value
\* read differs from that of the previous poll: of two consecutive polls
\* with identical readings the second emits nothing.
C20_PollEmitsOnChange == [][SamePollAgain => sig' = <<>>]_vars

\* the same for the two categories that updateData() compares with a
\* stored previous value: position and encoder error
C20_ComparedChannels ==
    [][SamePollAgain
          => \A i \in 1..Len(sig') : sig'[i][1] \notin {"EPOS", "connected"}]_vars
\* a request more than one turn outside the limits of a connected rotary axis
FarRotaryRequest ==
    /\ op.name = "setDPOS" /\ RotaryAxis /\ limits = <<0, Turn>>
    /\ (op.arg < LowLimit - Turn \/ op.arg > HighLimit + Turn)

\* C21: on a rotary axis one setDesiredPosition(v) applies the 360 wrap at
\* most once: for v more than one turn out of range the stored value is
\* exactly v + 360 or v - 360.
C21_SingleWrap ==
    FarRotaryRequest
        => DPOS = IF op.arg < LowLimit THEN op.arg + Turn ELSE op.arg - Turn

\* C21 as the code has it: the DPOS.set inside __setDPOS runs __setDPOS again,
\* so one call wraps turn after turn until the value lies within [0, 360];
\* the stored value differs from v by whole turns and nothing is raised.
C21_WrapsIntoRange ==
    FarRotaryRequest
        => /\ DPOS \in LowLimit..HighLimit
           /\ (DPOS - op.arg) % Turn = 0
           /\ ~err

C21_Witness ==
    /\ FarRotaryRequest /\ op.arg = -725 * U /\ DPOS = 355 * U /\ Called("setDPOS")
\* the positions the operation has written to the hardware
Moves == {hw[i][2] : i \in {j \in 1..Len(hw) : hw[j][1] = "setDPOS"}}

\* C22: every position that setDesiredPosition or step causes to be written
\* to the hardware lies within [lowLimit, highLimit] as they are at that
\* moment; the only position outside them that is ever written is the one
\* of the index search.
C22_MovesWithinLimits ==
    \A p \in Moves :
        \/ p \in LowLimit..HighLimit
        \/ (op.name = "findIndexThread" /\ p = SearchDPOS)

\* a request above the high limit of a linear axis was written as the limit
C22_Witness ==
    /\ op.name = "setDPOS" /\ variant = "xeryon" /\ isLineair
    /\ op.arg = 7 * U /\ limits = DefaultLimits
    /\ Moves = {5 * U}
InFlight == AnyWorker({"start", "searching", "found"})

\* C23: while an index search is in flight a setDesiredPosition or step call
\* is rejected or deferred: it writes no position to the hardware before the
\* search is over.
C23_NoMoveDuringSearch ==
    [][(InFlight /\ op'.name \in {"setDPOS", "step", "stepDefault"})
          => ~Called("setDPOS")']_vars
HardwareFailed == Called("getData raises") \/ Called("setDPOS raises")

\* C24: when a hardware call made by the poll or by setDesiredPosition on a
\* connected axis fails, no exception reaches the caller, the axis is
\* disconnected (connected false, timer stopped) and the disconnected status
\* is emitted.
C24_FailureAbsorbed ==
    HardwareFailed
        => (~err /\ ~crashed /\ ~connected /\ ~timerActive /\ Emitted("connected"))
\* C25: for any sequence of connect() and disconnect() on one axis, connect()
\* while connected included, at most one controller is started and not yet
\* stopped at any time.
C25_OneSession == sessions <= 1
\* C26: with several axes searching for their index at once, the library's
\* flag stays at waiting enabled (DISABLE_WAITING false) as long as the
\* blocking axis.findIndex() of any axis is in flight: one axis finishing
\* does not change the flag under another that still searches.
C26_WaitingWhileSearching ==
    (Searching /= {} \/ other.pc = "searching") => DISABLE_WAITING = FALSE
\* C27: indexFound implies connected in every reachable state, whatever the
\* interleaving of connect, disconnect, findIndex and the end of a worker.
C27_IndexFoundImpliesConnected == indexFound => connected
\* C28: a Worker given to the pool executes its function exactly once and
\* then emits finished once: when the index-search routine of a findIndex()
\* call has run to its end the worker is over, and it never runs it again.
C28_WorkerRunsOnce ==
    /\ \A i \in 1..Len(workers) : workers[i].pc /= "done" => workers[i].run = 1
    /\ op.name = "findIndexFound"
          => (workers[op.arg].pc = "done" /\ Emitted("finished"))
\* the DPOS.set calls made inside __setDPOS during the operation
Reentries == Cardinality({i \in 1..Len(sig) : sig[i][1] = "DPOS"}) - 1

\* C29: every setDesiredPosition(v) terminates: the normalisation re-enters
\* at most once on a linear axis and a bounded number of times on a rotary
\* one (it does not run into the recursion limit), for every v and every
\* limits pair that construction and connect() can leave.
C29_NormalisationTerminates ==
    (op.name \in {"setDPOS", "step", "stepDefault"})
        => /\ LinearAxis => Reentries <= 1
           /\ RotaryAxis => Reentries < MaxDepth
\* C29, where it does hold: everywhere but on a rotary stage whose axis
\* object exists while the limits are still those of __init__
C29_TerminatesWithOwnLimits ==
    (/\ op.name \in {"setDPOS", "step", "stepDefault"}
     /\ ~(RotaryAxis /\ axis /\ limits = DefaultLimits))
        => /\ LinearAxis => Reentries <= 1
           /\ RotaryAxis => Reentries < MaxDepth
\* C30: no grab thread ever uses Basler.cam after disconnect() has set it
\* to None, neither inside grabImg() nor at the StopGrabbing() that ends
\* run(), and at most one grab thread is inside grabImg() at a time.
Grabbing == {i \in 1..Len(threads) : threads[i].pc = "grab"}
C30_NoClearedHandle == \A i \in 1..Len(threads) : ~threads[i].onNone
C30_OneGrabThread == Cardinality(Grabbing) <= 1
C30_GrabThreadSafe == C30_NoClearedHandle /\ C30_OneGrabThread
\* after stopStream() and __parentClose(), run() ends in an AttributeError
C30_DiesAfterClose == \E i \in 1..Len(threads) : threads[i].pc = "died" /\ closed
====
